---- MODULE Spec2Model ----
(***************************************************************************)
(* Model of src/main.py (hevy-automation): the weekly workout fetcher,     *)
(* the routine grouper, the progression engine calculate_next_target and   *)
(* the main flow that mails the report.                                    *)
(*                                                                         *)
(* Number representation.  Python floats are modelled by exact decimals:   *)
(*   - a set's weight_kg is an integer count of 0.0001 kg,                 *)
(*   - a weight after round(.., 2) is an integer count of 0.01 kg,         *)
(*   - an RPE is an integer count of 0.1,                                  *)
(*   - a time is an integer count of days.                                 *)
(* The weights offered as inputs are those for which round() on the float  *)
(* is decided by the decimal value: a value exactly half-way between two   *)
(* hundredths is offered only when it is a multiple of 0.125 kg, which a   *)
(* binary float holds exactly and round() then takes to the even side.     *)
(*                                                                         *)
(* Interpreter.  Line 85 calls is_integer() on the rounded weight, which   *)
(* is an int when weight_kg is absent (line 80 sets the int 0).  The model *)
(* is of the interpreters on which the program handles such a set at all,  *)
(* those where int has is_integer (Python 3.12 and later).                 *)
(***************************************************************************)
EXTENDS Integers, Sequences, FiniteSets

VARIABLES
    pc,            \* position of the running flow
    HEVY_API_KEY,  \* the configured key: NoKey (unset), "" or a key
    now,           \* datetime.now(timezone.utc), in days
    page_num,      \* get_weekly_workouts: loop variable of the page loop
    page,          \* get_weekly_workouts: the workouts of the last response
    all_workouts,  \* get_weekly_workouts: the accumulated result
    requests,      \* the page requests issued so far (their params)
    workouts,      \* the sequence handed to group_by_routine
    gi,            \* group_by_routine: number of workouts iterated so far
    routines,      \* group_by_routine: the insertion-ordered dict
    report,        \* main: the rows rendered into the report
    trace,         \* prints and network calls, in program order
    sets,          \* calculate_next_target: argument sets
    exercise_name, \* calculate_next_target: argument exercise_name
    result         \* calculate_next_target: returned value

vars == <<pc, HEVY_API_KEY, now, page_num, page, all_workouts, requests,
          workouts, gi, routines, report, trace, sets, exercise_name, result>>

(***************************************************************************)
(* Python values.                                                          *)
(***************************************************************************)
\* None for a numeric field of a set (reps, weight_kg, rpe): key absent or null.
None == -1

\* The value of calculate_next_target when it returns None.
Absent == [absent |-> TRUE]

Min(a, b) == IF a <= b THEN a ELSE b

(***************************************************************************)
(* Configuration (src/main.py lines 18-24).                                *)
(***************************************************************************)
GOAL_REPS == 12

\* 9, in tenths of an RPE point
PROGRESSION_RPE_TRIGGER == 90

\* 2.5 kg, in hundredths of a kg
WEIGHT_INCREMENT_KG == 250

\* the literal 9 of `rpe < 9`, in tenths
ADD_REPS_RPE_LIMIT == 90

\* the literal 9.5 of `rpe >= 9.5`, in tenths
DELOAD_RPE == 95

\* the literal 4 of `GOAL_REPS - 4`
DELOAD_REPS_MARGIN == 4

\* the literal 2 of `reps + 2`
REP_STEP == 2

\* the default 8.0 of a missing RPE, in tenths
DEFAULT_RPE == 80

\* the factor 0.90, in hundredths
DELOAD_PERCENT == 90

(***************************************************************************)
(* round(x, 2) on the decimal models.                                      *)
(***************************************************************************)
\* n / d rounded to the nearest integer, an exact half to the even side.
RoundHalfEven(n, d) ==
    LET q == n \div d
        r == n % d
    IN  IF 2 * r < d THEN q
        ELSE IF 2 * r > d THEN q + 1
        ELSE IF q % 2 = 0 THEN q ELSE q + 1

\* round(weight_kg, 2): from 0.0001 kg units to 0.01 kg units.
Round2(weight_kg) == RoundHalfEven(weight_kg, 100)

\* Variant: the reduced weight cut off instead of rounded.
DeloadWeightTruncated(current_weight) == (current_weight * DELOAD_PERCENT) \div 100

\* round(current_weight * 0.90, 2), on hundredths of a kg.  The float product
\* decides an exact half (current_weight ending in 5 hundredths) by its binary
\* error; the weights offered as inputs never produce one.
DeloadWeight(current_weight) == RoundHalfEven(current_weight * DELOAD_PERCENT, 100)

(***************************************************************************)
(* calculate_next_target (src/main.py lines 69-133).                       *)
(***************************************************************************)
\* key=lambda s: s.get('weight_kg') or 0
WeightKey(s) == IF s.weight_kg = None \/ s.weight_kg = 0 THEN 0 ELSE s.weight_kg

\* max(sets, key=...): the first set whose key is not exceeded by any other.
RECURSIVE MaxFrom(_, _, _)
MaxFrom(ss, i, best) ==
    IF i > Len(ss) THEN best
    ELSE IF WeightKey(ss[i]) > WeightKey(best) THEN MaxFrom(ss, i + 1, ss[i])
    ELSE MaxFrom(ss, i + 1, best)

\* Variant: the last set performed.
LastPerformedSet(ss) == ss[Len(ss)]

WorkingSet(ss) == MaxFrom(ss, 2, ss[1])

\* Variant of the ladder: progression only below the trigger RPE.
ClassifyBelowTrigger(reps, rpe) ==
    IF reps >= GOAL_REPS /\ rpe < PROGRESSION_RPE_TRIGGER THEN "INCREASE WEIGHT"
    ELSE IF reps < GOAL_REPS /\ rpe < ADD_REPS_RPE_LIMIT THEN "ADD REPS"
    ELSE IF reps < (GOAL_REPS - DELOAD_REPS_MARGIN) /\ rpe >= DELOAD_RPE THEN "DELOAD"
    ELSE "MAINTAIN"

\* Variant of the ladder: DELOAD from the progression trigger on.
ClassifyDeloadAtTrigger(reps, rpe) ==
    IF reps >= GOAL_REPS /\ rpe <= PROGRESSION_RPE_TRIGGER THEN "INCREASE WEIGHT"
    ELSE IF reps < GOAL_REPS /\ rpe < ADD_REPS_RPE_LIMIT THEN "ADD REPS"
    ELSE IF reps < (GOAL_REPS - DELOAD_REPS_MARGIN) /\ rpe >= PROGRESSION_RPE_TRIGGER
        THEN "DELOAD"
    ELSE "MAINTAIN"

\* The branch ladder of the logic engine, on the defaulted values.
Classify(reps, rpe) ==
    IF reps >= GOAL_REPS /\ rpe <= PROGRESSION_RPE_TRIGGER THEN "INCREASE WEIGHT"
    ELSE IF reps < GOAL_REPS /\ rpe < ADD_REPS_RPE_LIMIT THEN "ADD REPS"
    ELSE IF reps < (GOAL_REPS - DELOAD_REPS_MARGIN) /\ rpe >= DELOAD_RPE THEN "DELOAD"
    ELSE "MAINTAIN"

\* new_weight = current_weight + WEIGHT_INCREMENT_KG
IncreaseTarget(current_weight) == current_weight + WEIGHT_INCREMENT_KG

\* Variant: the rep target without its cap.
AddRepsTargetUncapped(reps) == reps + REP_STEP

\* min(reps + 2, GOAL_REPS)
AddRepsTarget(reps) == Min(reps + REP_STEP, GOAL_REPS)

\* Variant: no zero-rep guard.
NeverZeroReps(reps) == FALSE

\* if reps == 0: return None
IsZeroReps(reps) == reps = 0

\* The recommendation dict of each branch.  detail and target_display keep the
\* number they print: kg in hundredths of a kg, reps as a count.
Recommendation(action, reps, current_weight) ==
    CASE action = "INCREASE WEIGHT" ->
            [action |-> "INCREASE WEIGHT",
             detail |-> [text |-> "Add kg", n |-> WEIGHT_INCREMENT_KG],
             target_display |-> [text |-> "Target kg",
                                 n |-> IncreaseTarget(current_weight)],
             badge_color |-> "#d4edda", text_color |-> "#155724"]
      [] action = "ADD REPS" ->
            [action |-> "ADD REPS",
             detail |-> [text |-> "Keep kg", n |-> current_weight],
             target_display |-> [text |-> "Target reps",
                                 n |-> AddRepsTarget(reps)],
             badge_color |-> "#cce5ff", text_color |-> "#004085"]
      [] action = "DELOAD" ->
            [action |-> "DELOAD",
             detail |-> [text |-> "Performance Dip", n |-> None],
             target_display |-> [text |-> "Reset to kg",
                                 n |-> DeloadWeight(current_weight)],
             badge_color |-> "#f8d7da", text_color |-> "#721c24"]
      [] OTHER ->
            [action |-> "MAINTAIN",
             detail |-> [text |-> "Keep kg", n |-> current_weight],
             target_display |-> [text |-> "Squeeze 1 more rep", n |-> None],
             badge_color |-> "#e2e3e5", text_color |-> "#383d41"]

\* sets is [kind, items]: kind "list" carries the sequence, kind "null" is a
\* JSON null handed through by ex.get('sets', []).
calculate_next_target(name, ss) ==
    IF ss.kind # "list" \/ ss.items = <<>> THEN Absent
    ELSE
        LET working_set == WorkingSet(ss.items)
            reps == IF working_set.reps = None THEN 0 ELSE working_set.reps
            weight_kg == IF working_set.weight_kg = None THEN 0
                         ELSE working_set.weight_kg
            current_weight == Round2(weight_kg)
            rpe == IF working_set.rpe = None THEN DEFAULT_RPE ELSE working_set.rpe
            rec == Recommendation(Classify(reps, rpe), reps, current_weight)
        IN  IF IsZeroReps(reps) THEN Absent
            ELSE [exercise |-> name,
                  last |-> [reps |-> reps, kg |-> current_weight, rpe |-> rpe],
                  action |-> rec.action,
                  detail |-> rec.detail,
                  target_display |-> rec.target_display,
                  badge_color |-> rec.badge_color,
                  text_color |-> rec.text_color]

(***************************************************************************)
(* Workouts as the API delivers them.  A workout is                        *)
(*   [id, title, start_time, exercises]                                    *)
(* where id is its position in the API's listing (newest first),           *)
(* start_time is [form, t] and title is a string.  The forms of a          *)
(* start_time: "Z" (ISO-8601 ending in Z), "offset" (ISO-8601 ending in    *)
(* +00:00), "naive" (ISO-8601 without zone), "malformed" (not ISO-8601),   *)
(* "missing" (no such key) and "null" (JSON null).                         *)
(***************************************************************************)
MissingTitle == "<missing>"

NullTitle == "<null>"

\* range(1, 4)
FIRST_PAGE == 1

LAST_PAGE == 3

\* 'pageSize': 10
PAGE_SIZE == 10

\* timedelta(days=7)
CUTOFF_DAYS == 7

\* cutoff_date = datetime.now(timezone.utc) - timedelta(days=7)
cutoff_date == now - CUTOFF_DAYS

\* w.get('start_time', ''): the empty string when the key is missing.
GetStartTime(w) ==
    IF w.start_time.form = "missing" THEN [form |-> "empty", t |-> 0]
    ELSE w.start_time

\* w_date_str.endswith('Z') on None raises AttributeError.
EndswithRaises(w_date_str) == w_date_str.form = "null"

\* if w_date_str.endswith('Z'): w_date_str = w_date_str.replace('Z', '+00:00')
ReplaceZ(w_date_str) ==
    IF w_date_str.form = "Z" THEN [form |-> "offset", t |-> w_date_str.t]
    ELSE w_date_str

\* datetime.fromisoformat: a datetime [aware, t], or ValueError.
fromisoformat(w_date_str) ==
    CASE w_date_str.form = "offset" ->
            [error |-> "", aware |-> TRUE, t |-> w_date_str.t]
      [] w_date_str.form = "naive" ->
            [error |-> "", aware |-> FALSE, t |-> w_date_str.t]
      [] OTHER ->
            [error |-> "ValueError", aware |-> FALSE, t |-> 0]

\* Variant: a workout older than the cutoff is passed over and the loop goes on.
RECURSIVE ScanPagePastOld(_, _, _, _)
ScanPagePastOld(ws, i, acc, cutoff) ==
    IF i > Len(ws) THEN [all_workouts |-> acc, outcome |-> "next_page"]
    ELSE
        LET w == ws[i]
            w_date_str == GetStartTime(w)
            w_date == fromisoformat(ReplaceZ(w_date_str))
        IN  IF EndswithRaises(w_date_str)
                THEN [all_workouts |-> acc, outcome |-> "exception"]
            ELSE IF w_date.error = "ValueError"
                THEN ScanPagePastOld(ws, i + 1, acc, cutoff)
            ELSE IF ~w_date.aware
                THEN [all_workouts |-> acc, outcome |-> "exception"]
            ELSE IF w_date.t >= cutoff
                THEN ScanPagePastOld(ws, i + 1, Append(acc, w), cutoff)
            ELSE ScanPagePastOld(ws, i + 1, acc, cutoff)

\* The loop `for w in workouts` of one page, from its i-th workout on.
\* outcome "next_page": the loop ran to its end; "return": return all_workouts;
\* "exception": an exception reached the outer handler (print, break).
RECURSIVE ScanPage(_, _, _, _)
ScanPage(ws, i, acc, cutoff) ==
    IF i > Len(ws) THEN [all_workouts |-> acc, outcome |-> "next_page"]
    ELSE
        LET w == ws[i]
            w_date_str == GetStartTime(w)
            w_date == fromisoformat(ReplaceZ(w_date_str))
        IN  IF EndswithRaises(w_date_str)
                THEN [all_workouts |-> acc, outcome |-> "exception"]
            ELSE IF w_date.error = "ValueError"
                THEN ScanPage(ws, i + 1, acc, cutoff)
            ELSE IF ~w_date.aware
                THEN [all_workouts |-> acc, outcome |-> "exception"]
            ELSE IF w_date.t >= cutoff
                THEN ScanPage(ws, i + 1, Append(acc, w), cutoff)
            ELSE [all_workouts |-> acc, outcome |-> "return"]

\* params = {'page': page_num, 'pageSize': 10}
Params == [page |-> page_num, pageSize |-> PAGE_SIZE]

\* The page loop is left (break, return, or range exhausted): the function
\* returns acc to its caller.
ReturnWorkouts(acc) ==
    /\ all_workouts' = acc
    /\ workouts' = acc
    /\ pc' = "fetched"
    /\ UNCHANGED page_num

\* The request of one page fails: requests.get raises, the status is not 200,
\* or response.json() raises.  The loop is left.
PageRequestFails ==
    /\ pc = "fetch"
    /\ \E failure \in {"network_error", "status", "bad_json"} :
          trace' = IF failure = "status" THEN Append(trace, "GET")
                   ELSE trace \o <<"GET", "print: Error fetching page">>
    /\ requests' = Append(requests, Params)
    /\ page' = <<>>
    /\ ReturnWorkouts(all_workouts)
    /\ UNCHANGED <<HEVY_API_KEY, now, gi, routines, report, sets,
                   exercise_name, result>>

\* The response carries no workouts (key absent, null or empty list): break.
PageEmpty ==
    /\ pc = "fetch"
    /\ requests' = Append(requests, Params)
    /\ trace' = Append(trace, "GET")
    /\ page' = <<>>
    /\ ReturnWorkouts(all_workouts)
    /\ UNCHANGED <<HEVY_API_KEY, now, gi, routines, report, sets,
                   exercise_name, result>>

\* The API numbers the workouts of its listing: those of page p are
\* (p - 1) * pageSize + 1 onwards.
Listed(contents, p) ==
    [i \in 1 .. Len(contents) |->
        [id |-> (p - 1) * PAGE_SIZE + i,
         title |-> contents[i].title,
         start_time |-> contents[i].start_time,
         exercises |-> contents[i].exercises]]

\* The response carries workouts, drawn from `served`: the page is scanned.
PageScan(served) ==
    /\ pc = "fetch"
    /\ \E contents \in served :
          LET ws == Listed(contents, page_num)
              scan == ScanPage(ws, 1, all_workouts, cutoff_date)
          IN  /\ page' = ws
              /\ trace' = IF scan.outcome = "exception"
                          THEN trace \o <<"GET", "print: Error fetching page">>
                          ELSE Append(trace, "GET")
              /\ IF scan.outcome = "next_page" /\ page_num < LAST_PAGE
                    THEN /\ all_workouts' = scan.all_workouts
                         /\ page_num' = page_num + 1
                         /\ UNCHANGED <<pc, workouts>>
                    ELSE ReturnWorkouts(scan.all_workouts)
    /\ requests' = Append(requests, Params)
    /\ UNCHANGED <<HEVY_API_KEY, now, gi, routines, report, sets,
                   exercise_name, result>>

(***************************************************************************)
(* group_by_routine (src/main.py lines 61-67).  The dict is a sequence of  *)
(* [key, value] in insertion order.                                        *)
(***************************************************************************)
\* w.get('title', 'Unknown Workout'); a null title is the key None.
TitleOf(w) == IF w.title = MissingTitle THEN "Unknown Workout" ELSE w.title

HasKey(d, k) == \E i \in 1 .. Len(d) : d[i].key = k

\* Variant: a later workout of the same title replaces the entry.
GroupInsertOverwriting(d, w) ==
    IF HasKey(d, TitleOf(w))
        THEN [i \in 1 .. Len(d) |->
                IF d[i].key = TitleOf(w) THEN [key |-> d[i].key, value |-> w]
                ELSE d[i]]
    ELSE Append(d, [key |-> TitleOf(w), value |-> w])

\* One iteration: if title not in routines: routines[title] = w
GroupInsert(d, w) ==
    IF HasKey(d, TitleOf(w)) THEN d
    ELSE Append(d, [key |-> TitleOf(w), value |-> w])

\* routines = {} on entry.
GroupCall ==
    /\ pc = "fetched"
    /\ pc' = "group_loop"
    /\ gi' = 0
    /\ routines' = <<>>
    /\ UNCHANGED <<HEVY_API_KEY, now, page_num, page, all_workouts, requests,
                   workouts, report, trace, sets, exercise_name, result>>

GroupStep ==
    /\ pc = "group_loop"
    /\ gi < Len(workouts)
    /\ routines' = GroupInsert(routines, workouts[gi + 1])
    /\ gi' = gi + 1
    /\ UNCHANGED <<pc, HEVY_API_KEY, now, page_num, page, all_workouts, requests,
                   workouts, report, trace, sets, exercise_name, result>>

GroupReturn ==
    /\ pc = "group_loop"
    /\ gi = Len(workouts)
    /\ pc' = "grouped"
    /\ UNCHANGED <<HEVY_API_KEY, now, page_num, page, all_workouts, requests,
                   workouts, gi, routines, report, trace, sets, exercise_name,
                   result>>

(***************************************************************************)
(* Inputs of calculate_next_target.                                        *)
(***************************************************************************)
MaxSets == 3
MaxReps == 13

RepsValues == {None} \cup (0 .. MaxReps)

\* tenths of an RPE point
RpeValues == {None, 70, 85, 89, 90, 91, 94, 95, 100}

\* 0.0001 kg: absent, 0, 0.0949, 0.125, 0.375, 20.125, 22.5 and 60 kg
WeightValues == {None, 0, 949, 1250, 3750, 201250, 225000, 600000}

SetValues == [reps : RepsValues, weight_kg : WeightValues, rpe : RpeValues]

\* The sets performed around the one under study.
FillerSets ==
    { [reps |-> 12, weight_kg |-> 600000, rpe |-> None],
      [reps |-> 0, weight_kg |-> None, rpe |-> 95],
      [reps |-> 5, weight_kg |-> 1250, rpe |-> 95] }

SeqsUpTo(S, n) == UNION { [1 .. k -> S] : k \in 0 .. n }

InsertAt(f, i, s) == SubSeq(f, 1, i - 1) \o <<s>> \o SubSeq(f, i, Len(f))

SetSequences ==
    { InsertAt(f, i, s) :
        <<f, i>> \in { <<g, j>> \in SeqsUpTo(FillerSets, MaxSets - 1) \X (1 .. MaxSets) :
                         j <= Len(g) + 1 },
        s \in SetValues }

SetsArguments ==
    { [kind |-> "list", items |-> ss] : ss \in SetSequences \cup {<<>>} }
        \cup { [kind |-> "null", items |-> <<>>] }

ExerciseNames == {"Bench Press"}

NoKey == "<unset>"

NoWorkouts == <<>>

(***************************************************************************)
(* The engine on its own: one call of calculate_next_target.               *)
(***************************************************************************)
InitEngine ==
    /\ pc = "engine_call"
    /\ sets \in SetsArguments
    /\ exercise_name \in ExerciseNames
    /\ result = Absent
    /\ HEVY_API_KEY = "key"
    /\ now \in {8}
    /\ page_num = FIRST_PAGE
    /\ page = <<>>
    /\ all_workouts = <<>>
    /\ requests = <<>>
    /\ workouts = NoWorkouts
    /\ gi = 0
    /\ routines = <<>>
    /\ report = <<>>
    /\ trace = <<>>

CalculateNextTarget ==
    /\ pc = "engine_call"
    /\ result' = calculate_next_target(exercise_name, sets)
    /\ pc' = "engine_returned"
    /\ UNCHANGED <<HEVY_API_KEY, now, page_num, page, all_workouts, requests,
                   workouts, gi, routines, report, trace, sets, exercise_name>>

NextEngine == CalculateNextTarget

SpecEngine == InitEngine /\ [][NextEngine]_vars

(***************************************************************************)
(* get_weekly_workouts on its own: the key is present, the API answers     *)
(* with pages of at most MaxPageLen workouts.                              *)
(***************************************************************************)
MaxPageLen == 2

\* days; the cutoff is day 1 or day 2
NowValues == {8, 9}

NoExercises == [kind |-> "missing", items |-> <<>>]

IdleEngine ==
    /\ sets = [kind |-> "list", items |-> <<>>]
    /\ exercise_name = "Bench Press"
    /\ result = Absent

\* start_time values: recent, at or around the cutoff, old, and the ones that
\* do not yield a UTC-aware time.
FetchStartTimes ==
    { [form |-> "Z", t |-> 2], [form |-> "offset", t |-> 1], [form |-> "Z", t |-> 0],
      [form |-> "naive", t |-> 2], [form |-> "malformed", t |-> 0],
      [form |-> "missing", t |-> 0], [form |-> "null", t |-> 0] }

FetchWorkouts ==
    [title : {"Push Day"}, start_time : FetchStartTimes, exercises : {NoExercises}]

\* The non-empty pages the API may answer with.
PagesOf(W) == UNION { [1 .. k -> W] : k \in 1 .. MaxPageLen }

InitFetch ==
    /\ pc = "fetch"
    /\ HEVY_API_KEY = "key"
    /\ now \in NowValues
    /\ page_num = FIRST_PAGE
    /\ page = <<>>
    /\ all_workouts = <<>>
    /\ requests = <<>>
    /\ workouts = NoWorkouts
    /\ gi = 0
    /\ routines = <<>>
    /\ report = <<>>
    /\ trace = <<>>
    /\ IdleEngine

NextFetch ==
    \/ PageRequestFails
    \/ PageEmpty
    \/ PageScan(PagesOf(FetchWorkouts))

SpecFetch == InitFetch /\ [][NextFetch]_vars

(***************************************************************************)
(* group_by_routine on its own: any sequence of at most MaxWorkouts        *)
(* workouts, newest first.                                                 *)
(***************************************************************************)
MaxWorkouts == 3

GroupTitles == {"Push Day", "Pull Day", "Unknown Workout", MissingTitle, NullTitle}

GroupWorkouts ==
    [title : GroupTitles, start_time : {[form |-> "Z", t |-> 2]},
     exercises : {NoExercises}]

InitGroup ==
    /\ pc = "group_loop"
    /\ HEVY_API_KEY = "key"
    /\ now \in {8}
    /\ page_num = FIRST_PAGE
    /\ page = <<>>
    /\ all_workouts = <<>>
    /\ requests = <<>>
    /\ workouts \in { Listed(c, FIRST_PAGE) : c \in SeqsUpTo(GroupWorkouts, MaxWorkouts) }
    /\ gi = 0
    /\ routines = <<>>
    /\ report = <<>>
    /\ trace = <<>>
    /\ IdleEngine

NextGroup == GroupStep \/ GroupReturn

SpecGroup == InitGroup /\ [][NextGroup]_vars

(***************************************************************************)
(* The main flow (src/main.py lines 154-249).                              *)
(***************************************************************************)
\* Variant: only an unset key is refused, an empty one passes.
KeyCheckUnsetOnly ==
    /\ pc = "start"
    /\ IF HEVY_API_KEY = NoKey
          THEN /\ trace' = Append(trace, "print: Error: HEVY_API_KEY is missing.")
               /\ pc' = "exit"
          ELSE /\ trace' = trace \o <<"print: Fetching last 7 days of workouts...",
                                     "print: Filtering for workouts after">>
               /\ pc' = "fetch"
    /\ UNCHANGED <<HEVY_API_KEY, now, page_num, page, all_workouts, requests,
                   workouts, gi, routines, report, sets, exercise_name, result>>

\* if not HEVY_API_KEY: print, exit(); else print and enter
\* get_weekly_workouts.
KeyCheck ==
    /\ pc = "start"
    /\ IF HEVY_API_KEY = NoKey \/ HEVY_API_KEY = ""
          THEN /\ trace' = Append(trace, "print: Error: HEVY_API_KEY is missing.")
               /\ pc' = "exit"
          ELSE /\ trace' = trace \o <<"print: Fetching last 7 days of workouts...",
                                     "print: Filtering for workouts after">>
               /\ pc' = "fetch"
    /\ UNCHANGED <<HEVY_API_KEY, now, page_num, page, all_workouts, requests,
                   workouts, gi, routines, report, sets, exercise_name, result>>

\* if not latest_routines: print, exit(); else print the count.
CheckRoutines ==
    /\ pc = "grouped"
    /\ IF routines = <<>>
          THEN /\ trace' = Append(trace, "print: No workouts found in the last 7 days.")
               /\ pc' = "exit"
          ELSE /\ trace' = Append(trace, "print: Found routines")
               /\ pc' = "render"
    /\ UNCHANGED <<HEVY_API_KEY, now, page_num, page, all_workouts, requests,
                   workouts, gi, routines, report, sets, exercise_name, result>>

\* for ex in data.get('exercises', []): the rows of the exercises for which
\* calculate_next_target returned a recommendation.
RECURSIVE ExerciseRows(_, _)
ExerciseRows(exs, i) ==
    IF i > Len(exs) THEN <<>>
    ELSE LET res == calculate_next_target(exs[i].title, exs[i].sets)
         IN  IF res = Absent THEN ExerciseRows(exs, i + 1)
             ELSE <<[exercise |-> res.exercise, last |-> res.last,
                     action |-> res.action,
                     target_display |-> res.target_display,
                     badge_color |-> res.badge_color,
                     text_color |-> res.text_color]>> \o ExerciseRows(exs, i + 1)

\* Iterating a null 'exercises' raises TypeError, which nothing catches.
RenderRaises == \E i \in 1 .. Len(routines) : routines[i].value.exercises.kind = "null"

\* The loop over latest_routines.items() building both bodies.
Render ==
    /\ pc = "render"
    /\ IF RenderRaises
          THEN /\ pc' = "crashed"
               /\ UNCHANGED report
          ELSE /\ pc' = "send"
               /\ report' =
                    [i \in 1 .. Len(routines) |->
                        [title |-> routines[i].key,
                         start_time |-> fromisoformat(ReplaceZ(routines[i].value.start_time)).t,
                         rows |-> ExerciseRows(routines[i].value.exercises.items, 1)]]
    /\ UNCHANGED <<HEVY_API_KEY, now, page_num, page, all_workouts, requests,
                   workouts, gi, routines, trace, sets, exercise_name, result>>

\* send_email: the submission succeeds, or fails and is reported.
SendEmail ==
    /\ pc = "send"
    /\ \E delivered \in BOOLEAN :
          trace' = trace \o <<"SMTP", IF delivered THEN "print: Email sent successfully!"
                                      ELSE "print: Failed to send email">>
    /\ pc' = "done"
    /\ UNCHANGED <<HEVY_API_KEY, now, page_num, page, all_workouts, requests,
                   workouts, gi, routines, report, sets, exercise_name, result>>

BenchPress ==
    [title |-> "Bench Press",
     sets |-> [kind |-> "list",
               items |-> <<[reps |-> 12, weight_kg |-> 600000, rpe |-> None]>>]]

Plank == [title |-> "Plank", sets |-> [kind |-> "null", items |-> <<>>]]

MainWorkouts ==
    { [title |-> "Push Day", start_time |-> [form |-> "Z", t |-> 2],
       exercises |-> [kind |-> "list", items |-> <<BenchPress, Plank>>]],
      [title |-> MissingTitle, start_time |-> [form |-> "offset", t |-> 2],
       exercises |-> [kind |-> "null", items |-> <<>>]],
      [title |-> "Push Day", start_time |-> [form |-> "Z", t |-> 0],
       exercises |-> NoExercises] }

Init ==
    /\ pc = "start"
    /\ HEVY_API_KEY \in {NoKey, "", "key"}
    /\ now \in NowValues
    /\ page_num = FIRST_PAGE
    /\ page = <<>>
    /\ all_workouts = <<>>
    /\ requests = <<>>
    /\ workouts = NoWorkouts
    /\ gi = 0
    /\ routines = <<>>
    /\ report = <<>>
    /\ trace = <<>>
    /\ IdleEngine

Next ==
    \/ KeyCheck
    \/ PageRequestFails
    \/ PageEmpty
    \/ PageScan(PagesOf(MainWorkouts))
    \/ GroupCall
    \/ GroupStep
    \/ GroupReturn
    \/ CheckRoutines
    \/ Render
    \/ SendEmail

Spec == Init /\ [][Next]_vars

(***************************************************************************)
(* Properties of calculate_next_target.  The reference set is named here   *)
(* without the engine's own operators: by position and by the values of    *)
(* the argument.  Weights are compared in 0.0001 kg; a weight shown at     *)
(* display precision may differ from the stored one by half a hundredth.   *)
(***************************************************************************)
Returned == pc = "engine_returned"

HasSets == sets.kind = "list" /\ sets.items # <<>>

Abs(x) == IF x < 0 THEN -x ELSE x

OrZero(x) == IF x = None THEN 0 ELSE x

\* The position of the first set of greatest weight (an absent weight counts 0).
HeaviestIndex ==
    CHOOSE i \in 1 .. Len(sets.items) :
        /\ \A j \in 1 .. Len(sets.items) :
              OrZero(sets.items[j].weight_kg) <= OrZero(sets.items[i].weight_kg)
        /\ \A j \in 1 .. (i - 1) :
              OrZero(sets.items[j].weight_kg) < OrZero(sets.items[i].weight_kg)

RefSet == sets.items[HeaviestIndex]

LastSet == sets.items[Len(sets.items)]

RepsOf(s) == OrZero(s.reps)

RpeOf(s) == IF s.rpe = None THEN 80 ELSE s.rpe

KgOf(s) == OrZero(s.weight_kg)

\* h hundredths of a kg is the weight w (0.0001 kg) at display precision.
ShownAs(h, w) == Abs(100 * h - w) <= 50

IsRecommendation == result # Absent

\* The conditions of the four actions, as the rule states them.
IncreaseCase(s) == RepsOf(s) >= 12 /\ RpeOf(s) <= 90

AddRepsCase(s) == RepsOf(s) < 12 /\ RpeOf(s) < 90

DeloadCase(s) == RepsOf(s) < 8 /\ RpeOf(s) >= 95

IncreaseOutcome(s) ==
    /\ IsRecommendation
    /\ result.action = "INCREASE WEIGHT"
    /\ result.target_display.text = "Target kg"
    /\ Abs(100 * result.target_display.n - (KgOf(s) + 25000)) <= 50

AddRepsOutcome(s) ==
    /\ IsRecommendation
    /\ result.action = "ADD REPS"
    /\ result.target_display.text = "Target reps"
    /\ result.target_display.n = Min(RepsOf(s) + 2, 12)
    /\ result.detail.text = "Keep kg"
    /\ ShownAs(result.detail.n, KgOf(s))

\* 0.90 times the weight at display precision, itself at display precision.
DeloadOutcome(s) ==
    /\ IsRecommendation
    /\ result.action = "DELOAD"
    /\ result.target_display.text = "Reset to kg"
    /\ \E h \in { KgOf(s) \div 100, KgOf(s) \div 100 + 1 } :
          /\ ShownAs(h, KgOf(s))
          /\ Abs(100 * result.target_display.n - 90 * h) <= 50

MaintainOutcome(s) ==
    /\ IsRecommendation
    /\ result.action = "MAINTAIN"
    /\ result.detail.text = "Keep kg"
    /\ ShownAs(result.detail.n, KgOf(s))
    /\ result.target_display.text = "Squeeze 1 more rep"

\* C1: whenever the reference set of a non-empty set sequence has reps >= 12
\* and RPE <= 9 (a missing RPE counting 8.0), the action is INCREASE WEIGHT and
\* the target weight is the reference set's weight plus 2.5 kg, within the
\* rounding of the display.
C1_IncreaseWeight ==
    (Returned /\ HasSets /\ IncreaseCase(RefSet)) => IncreaseOutcome(RefSet)

C1_Witness ==
    /\ Returned /\ HasSets /\ Len(sets.items) = 2
    /\ RefSet.reps = 12 /\ RefSet.rpe = 90 /\ RefSet.weight_kg = 201250
    /\ result.action = "INCREASE WEIGHT"
    /\ result.target_display.n = 2262

\* C2 as stated: whenever the reference set has reps < 12 and RPE < 9 (missing
\* reps counting 0, missing RPE 8.0), the action is ADD REPS, the target is
\* min(reps + 2, 12) reps and the weight is kept.
C2_AddRepsAsStated ==
    (Returned /\ HasSets /\ AddRepsCase(RefSet)) => AddRepsOutcome(RefSet)

\* C2 amended: whenever the reference set has at least one rep, reps < 12 and
\* RPE < 9 (a missing RPE counting 8.0), the action is ADD REPS, the target is
\* min(reps + 2, 12) reps and the weight is kept.
C2_AddReps ==
    (Returned /\ HasSets /\ AddRepsCase(RefSet) /\ RepsOf(RefSet) # 0)
        => AddRepsOutcome(RefSet)

C2_Witness ==
    /\ Returned /\ HasSets
    /\ RefSet.reps = 11 /\ RefSet.rpe = None /\ RefSet.weight_kg = 1250
    /\ result.action = "ADD REPS"
    /\ result.target_display.n = 12
    /\ result.detail.n = 12

\* C3 as stated: whenever the reference set has reps < 8 and RPE >= 9.5, the
\* action is DELOAD and the target weight is 0.90 times the reference set's
\* weight, rounded to display precision.
C3_DeloadAsStated ==
    (Returned /\ HasSets /\ DeloadCase(RefSet)) => DeloadOutcome(RefSet)

\* C3 amended: whenever the reference set has at least one rep, reps < 8 and
\* RPE >= 9.5, the action is DELOAD and the target weight is 0.90 times the
\* reference set's weight, rounded to display precision.
C3_Deload ==
    (Returned /\ HasSets /\ DeloadCase(RefSet) /\ RepsOf(RefSet) # 0)
        => DeloadOutcome(RefSet)

C3_Witness ==
    /\ Returned /\ HasSets /\ Len(sets.items) = 3
    /\ RefSet.reps = 7 /\ RefSet.rpe = 95 /\ RefSet.weight_kg = 600000
    /\ result.action = "DELOAD"
    /\ result.target_display.n = 5400

\* C4: for a reference set of at least one rep the four actions partition the
\* inputs: exactly the action whose condition holds is returned, and MAINTAIN,
\* with the weight kept, when none of the INCREASE WEIGHT, ADD REPS and DELOAD
\* conditions holds.
C4_MaintainOtherwise ==
    (Returned /\ HasSets /\ RepsOf(RefSet) > 0) =>
        /\ IsRecommendation
        /\ result.action \in {"INCREASE WEIGHT", "ADD REPS", "DELOAD", "MAINTAIN"}
        /\ (result.action = "INCREASE WEIGHT") <=> IncreaseCase(RefSet)
        /\ (result.action = "ADD REPS") <=> AddRepsCase(RefSet)
        /\ (result.action = "DELOAD") <=> DeloadCase(RefSet)
        /\ (~IncreaseCase(RefSet) /\ ~AddRepsCase(RefSet) /\ ~DeloadCase(RefSet))
              => MaintainOutcome(RefSet)

C4_Witness ==
    /\ Returned /\ HasSets
    /\ RefSet.reps = 7 /\ RefSet.rpe = 94 /\ RefSet.weight_kg = 225000
    /\ result.action = "MAINTAIN"
    /\ result.detail.n = 2250

\* C5: whenever the reference set's reps is 0 after defaulting (absent, null
\* or 0) no recommendation is returned, whatever its weight and RPE; an empty
\* set sequence returns none either.
C5_ZeroRepsAbsent ==
    Returned =>
        /\ (HasSets /\ RepsOf(RefSet) = 0) => result = Absent
        /\ (sets.kind = "list" /\ sets.items = <<>>) => result = Absent

C5_Witness ==
    /\ Returned /\ HasSets /\ Len(sets.items) = 2
    /\ RefSet.reps = None /\ RefSet.rpe = 70 /\ RefSet.weight_kg = 600000
    /\ LastSet.reps = 5
    /\ result = Absent

\* What the rule yields for the set s alone.
DerivedFrom(s) ==
    IF RepsOf(s) = 0 THEN result = Absent
    ELSE /\ IsRecommendation
         /\ result.last.reps = RepsOf(s)
         /\ result.last.rpe = RpeOf(s)
         /\ ShownAs(result.last.kg, KgOf(s))
         /\ IF IncreaseCase(s) THEN IncreaseOutcome(s)
            ELSE IF AddRepsCase(s) THEN AddRepsOutcome(s)
            ELSE IF DeloadCase(s) THEN DeloadOutcome(s)
            ELSE MaintainOutcome(s)

\* C6 as stated: for every non-empty set sequence the action, the targets and
\* the 'last' summary are those of the chronologically last set.
C6_LastSetAsStated == (Returned /\ HasSets) => DerivedFrom(LastSet)

\* C6 amended: for every non-empty set sequence the action, the targets and
\* the 'last' summary are those of the first set of greatest weight_kg (an
\* absent weight counting 0).
C6_HeaviestSet == (Returned /\ HasSets) => DerivedFrom(RefSet)

C6_Witness ==
    /\ Returned /\ HasSets /\ Len(sets.items) = 2
    /\ sets.items[1] = [reps |-> 12, weight_kg |-> 600000, rpe |-> None]
    /\ sets.items[2] = [reps |-> 5, weight_kg |-> 1250, rpe |-> 95]
    /\ result.action = "INCREASE WEIGHT"
    /\ result.last = [reps |-> 12, kg |-> 6000, rpe |-> 80]

(***************************************************************************)
(* Properties of group_by_routine.                                         *)
(***************************************************************************)
\* The title a workout is filed under.
FiledUnder(w) == IF w.title = MissingTitle THEN "Unknown Workout" ELSE w.title

\* The titles among the workouts iterated so far.
SeenTitles == { FiledUnder(workouts[i]) : i \in 1 .. gi }

\* The position of the first workout filed under title k.
FirstWith(k) ==
    CHOOSE i \in 1 .. gi :
        /\ FiledUnder(workouts[i]) = k
        /\ \A j \in 1 .. (i - 1) : FiledUnder(workouts[j]) # k

FirstSeenKept ==
    /\ { routines[i].key : i \in 1 .. Len(routines) } = SeenTitles
    /\ Len(routines) = Cardinality(SeenTitles)
    /\ \A i \in 1 .. Len(routines) :
          routines[i].value = workouts[FirstWith(routines[i].key)]
    /\ \A i, j \in 1 .. Len(routines) :
          i < j => FirstWith(routines[i].key) < FirstWith(routines[j].key)
    /\ pc = "grouped" => gi = Len(workouts)

EntriesStay ==
    /\ Len(routines') >= Len(routines)
    /\ \A i \in 1 .. Len(routines) : routines'[i] = routines[i]

\* C7: the map holds exactly one entry per distinct title (a missing title
\* filed under "Unknown Workout"), each entry is the first workout of that
\* title in iteration order, entries are in order of first occurrence, and
\* no step of the loop changes or removes an entry once inserted.
C7_FirstSeenWins == []FirstSeenKept /\ [][EntriesStay]_vars

C7_Witness ==
    /\ pc = "grouped" /\ Len(workouts) = 3
    /\ workouts[1].title = MissingTitle
    /\ workouts[2].title = "Push Day"
    /\ workouts[3].title = "Unknown Workout"
    /\ Len(routines) = 2
    /\ routines[1].key = "Unknown Workout" /\ routines[1].value.id = 1
    /\ routines[2].key = "Push Day"

(***************************************************************************)
(* Properties of get_weekly_workouts.  `page` is the last response.        *)
(***************************************************************************)
IsAware(w) == w.start_time.form \in {"Z", "offset"}

IsRecent(w) == IsAware(w) /\ w.start_time.t >= now - 7

IsOld(w) == IsAware(w) /\ w.start_time.t < now - 7

\* The records whose start time is no UTC-aware time.
IsUnparseable(w) == ~IsAware(w)

InResult(w) == \E i \in 1 .. Len(all_workouts) : all_workouts[i] = w

\* page[k] is the first workout older than the cutoff that the loop reaches.
FirstOldAt(k) ==
    /\ IsOld(page[k])
    /\ \A j \in 1 .. (k - 1) :
          ~IsOld(page[j]) /\ page[j].start_time.form \notin {"null", "naive"}

\* C8: every workout of the result starts at or after now - 7 days and the
\* result is in API order; at the first workout older than the cutoff the
\* function has returned, with the earlier recent workouts of the page and
\* none after it, and no further page is requested; at most 3 pages of 10 are
\* requested, pages 1, 2, 3 in turn.
C8_TimeBoundedFetch ==
    /\ \A i \in 1 .. Len(all_workouts) : IsRecent(all_workouts[i])
    /\ \A i, j \in 1 .. Len(all_workouts) :
          i < j => all_workouts[i].id < all_workouts[j].id
    /\ \A i \in 1 .. Len(all_workouts) : \A k \in 1 .. Len(page) :
          all_workouts[i].id = page[k].id => all_workouts[i] = page[k]
    /\ Len(requests) <= 3
    /\ \A i \in 1 .. Len(requests) : requests[i] = [page |-> i, pageSize |-> 10]
    /\ pc = "fetched" => workouts = all_workouts
    /\ \A k \in 1 .. Len(page) :
          FirstOldAt(k) =>
              /\ pc = "fetched"
              /\ \A i \in 1 .. Len(all_workouts) : all_workouts[i].id < page[k].id
              /\ \A j \in 1 .. (k - 1) : IsRecent(page[j]) => InResult(page[j])
              /\ Len(requests) = ((page[k].id - 1) \div 10) + 1

C8_Witness ==
    /\ pc = "fetched" /\ Len(requests) = 2 /\ Len(page) = 2
    /\ FirstOldAt(1) /\ IsRecent(page[2])
    /\ Len(all_workouts) = 2
    /\ all_workouts[2].start_time = [form |-> "offset", t |-> 1]

\* C9: a workout whose start time cannot be parsed (malformed, missing, null,
\* or not UTC-aware) is skipped alone: once the function has returned, every
\* recent workout of the last page that no older workout precedes is in the
\* result, whichever unparseable records precede it.
C9_UnparseableSkipped ==
    pc = "fetched" =>
        \A k \in 1 .. Len(page) :
            (IsRecent(page[k]) /\ \A j \in 1 .. (k - 1) : ~IsOld(page[j]))
                => InResult(page[k])

(***************************************************************************)
(* Properties of the main flow.                                            *)
(***************************************************************************)
KeyAbsent == HEVY_API_KEY = NoKey \/ HEVY_API_KEY = ""

Happened(e) == \E i \in 1 .. Len(trace) : trace[i] = e

Before(e, f) ==
    \A i \in 1 .. Len(trace) :
        trace[i] = f => \E j \in 1 .. (i - 1) : trace[j] = e

\* C10: with the key unset or empty the process prints the diagnostic and
\* stops, and never requests a page or submits mail; in every run a page is
\* requested only after the key check has passed, and mail is submitted only
\* after fetching and grouping left at least one routine.
C10_KeyBeforeNetwork ==
    /\ KeyAbsent =>
          /\ ~Happened("GET") /\ ~Happened("SMTP") /\ requests = <<>>
          /\ pc \in {"start", "exit"}
          /\ pc = "exit" =>
                trace = <<"print: Error: HEVY_API_KEY is missing.">>
    /\ pc = "exit" => ~ENABLED Next
    /\ Happened("GET") => ~KeyAbsent /\ Len(requests) > 0
    /\ Len(requests) > 0 => Happened("GET")
    /\ Before("print: Fetching last 7 days of workouts...", "GET")
    /\ Happened("SMTP") => pc = "done" /\ routines # <<>> /\ workouts # <<>>
    /\ Before("GET", "SMTP")
    /\ Before("print: Found routines", "SMTP")

C10_Witness ==
    /\ HEVY_API_KEY = ""
    /\ pc = "exit"
    /\ trace = <<"print: Error: HEVY_API_KEY is missing.">>

====
